---- MODULE Spec2Model ----
(***************************************************************************)
(* Model of the slot-allocation engine of calendar_integration.py:         *)
(* schedule_tasks, _schedule_by_preferred_time and _schedule_by_freebusy.  *)
(*                                                                         *)
(* Time is counted in half-hour ticks of local (America/Los_Angeles) wall  *)
(* clock time since Monday 00:00 of the week the run starts in: day 0 is   *)
(* a Monday, so weekday(d) = d % 7 with Monday = 0 as in Python.  Python   *)
(* arithmetic and comparison of aware datetimes that share one tzinfo is   *)
(* wall-clock arithmetic, which is what integer ticks give.                *)
(***************************************************************************)
EXTENDS Integers, Sequences, FiniteSets, TLC

\* ---------------------------------------------------------------- bounds
MaxTasks == 2
MaxDeadline == 7
MaxLimit == 1
MaxBusy == 2

\* ------------------------------------------------------------- constants
WORK_START == 9
WORK_END == 22
DEFAULT_MAX_TASKS_PER_DAY == 2

\* timedelta(hours=h) in half-hour ticks
Hr(h) == 2 * h

BUFFER == Hr(1)

CODE_TO_WEEKDAY ==
  [MO |-> 0, TU |-> 1, WE |-> 2, TH |-> 3, FR |-> 4, SA |-> 5, SU |-> 6]

PREFERRED_WINDOWS ==
  [morning |-> <<8, 12>>, noon |-> <<12, 14>>,
   afternoon |-> <<14, 18>>, night |-> <<18, 22>>]

\* ------------------------------------------------------ datetime helpers
Max2(a, b) == IF a >= b THEN a ELSE b
Min2(a, b) == IF a <= b THEN a ELSE b

\* datetime.date(): the calendar day of a tick
DateOf(t) == t \div Hr(24)

\* datetime.hour
HourOf(t) == (t % Hr(24)) \div Hr(1)

\* date.weekday(), Monday = 0
WeekdayOf(d) == d % 7

\* datetime.combine(d, time(hour=h)) and dt.replace(hour=h, minute=0, ...)
Combine(d, h) == d * Hr(24) + Hr(h)

\* datetime.fromisoformat(s).astimezone(LOCAL_TZ): the written wall clock
\* (day, tick of day) of a zone that is `off` ticks ahead of LOCAL_TZ
AsLocal(iso) == iso.day * Hr(24) + iso.tod - iso.off

\* variant: the start is not shifted to the next day
NextDayDtSameDay(iso) == Combine(DateOf(AsLocal(iso)), WORK_START)

\* schedule_tasks step 1: tomorrow (local) at WORK_START
NextDayDt(iso) == Combine(DateOf(AsLocal(iso) + Hr(24)), WORK_START)

\* datetime.fromisoformat(deadline_iso).date(): the written date, no zone shift
DeadlineDate(dl) == dl

DailyLimit(mpd) == IF mpd # <<>> THEN mpd[1] ELSE DEFAULT_MAX_TASKS_PER_DAY

\* allowed_days: a list of codes; None and [] are both falsy and are <<>> here
AllowedIndices(ad) ==
  IF ad # <<>>
  THEN {CODE_TO_WEEKDAY[ad[k]] :
          k \in {j \in 1..Len(ad) : ad[j] \in DOMAIN CODE_TO_WEEKDAY}}
  ELSE {0, 1, 2, 3, 4}

\* timedelta(hours=float(t.get("duration_hours", 1.0))), kept in ticks
Duration(t) == t.duration_hours

\* ------------------------------------------------------ calendar gateway
\* events().list(timeMin=..., maxResults=1, orderBy="startTime"): the first
\* event (by start) that ends after timeMin; there is no timeMax
EventsList(cal, timeMin) ==
  LET hits == {k \in 1..Len(cal) : cal[k][2] > timeMin}
  IN IF hits = {} THEN <<>>
     ELSE LET k == CHOOSE k \in hits :
                     \A j \in hits : cal[k][1] < cal[j][1]
                                     \/ (cal[k][1] = cal[j][1] /\ k <= j)
          IN <<cal[k]>>

\* freebusy().query(timeMin, timeMax): the periods that intersect the range,
\* in the order the service lists them
FreeBusyQuery(cal, timeMin, timeMax) ==
  SelectSeq(cal, LAMBDA b : b[1] < timeMax /\ b[2] > timeMin)

\* ------------------------------------------------- free/busy carve-out
\* variant: a busy interval counts only on days after the day it starts
DayBusySegmentsStrict(bz, day) ==
  LET day_start == Combine(day, WORK_START)
      day_end == Combine(day, WORK_END)
      keep(b) == /\ DateOf(b[1]) < day
                 /\ day <= DateOf(b[2])
                 /\ Max2(b[1], day_start) < Min2(b[2], day_end)
      sel == SelectSeq(bz, keep)
  IN [k \in 1..Len(sel) |->
        <<Max2(sel[k][1], day_start), Min2(sel[k][2], day_end)>>]

\* step 2: that day's busy slices clipped to [day_start, day_end]
DayBusySegments(bz, day) ==
  LET day_start == Combine(day, WORK_START)
      day_end == Combine(day, WORK_END)
      keep(b) == /\ DateOf(b[1]) <= day
                 /\ day <= DateOf(b[2])
                 /\ Max2(b[1], day_start) < Min2(b[2], day_end)
      sel == SelectSeq(bz, keep)
  IN [k \in 1..Len(sel) |->
        <<Max2(sel[k][1], day_start), Min2(sel[k][2], day_end)>>]

\* list.sort(key=lambda x: x[0]): stable, by start
RECURSIVE InsertByStart(_, _)
InsertByStart(s, x) ==
  IF s = <<>> THEN <<x>>
  ELSE IF Head(s)[1] <= x[1] THEN <<Head(s)>> \o InsertByStart(Tail(s), x)
  ELSE <<x>> \o s

\* variant: the day's slices are swept in the order they were collected
SortByStartUnsorted(s) == s

RECURSIVE SortByStart(_)
SortByStart(s) ==
  IF s = <<>> THEN <<>>
  ELSE InsertByStart(SortByStart(SubSeq(s, 1, Len(s) - 1)), s[Len(s)])

\* variant: the sweep's cursor jumps to the slice's end without the max
CarveAdvanceNoMax(cursor_fb, be) == be

\* the sweep's cursor after a busy slice
CarveAdvance(cursor_fb, be) == Max2(cursor_fb, be)

\* step 3: sweep the sorted slices left to right
RECURSIVE CarveSweep(_, _, _, _)
CarveSweep(day_busy, cursor_fb, day_end, acc) ==
  IF day_busy = <<>>
  THEN IF cursor_fb < day_end THEN Append(acc, <<cursor_fb, day_end>>) ELSE acc
  ELSE LET bs == Head(day_busy)[1]
           be == Head(day_busy)[2]
       IN CarveSweep(Tail(day_busy), CarveAdvance(cursor_fb, be), day_end,
                     IF bs > cursor_fb THEN Append(acc, <<cursor_fb, bs>>)
                     ELSE acc)

FreeWindows(bz, day) ==
  CarveSweep(SortByStart(DayBusySegments(bz, day)),
             Combine(day, WORK_START), Combine(day, WORK_END), <<>>)

\* variant: the first free window is taken whatever its length
FirstFitAnyGap(free_windows, duration) ==
  IF free_windows = <<>> THEN <<>>
  ELSE <<Head(free_windows)[1], Head(free_windows)[1] + duration>>

\* step 4: the first free window that can fit `duration`; <<>> is None
RECURSIVE FirstFit(_, _)
FirstFit(free_windows, duration) ==
  IF free_windows = <<>> THEN <<>>
  ELSE IF Head(free_windows)[2] - Head(free_windows)[1] >= duration
       THEN <<Head(free_windows)[1], Head(free_windows)[1] + duration>>
       ELSE FirstFit(Tail(free_windows), duration)

Count(counts, d) == IF d \in DOMAIN counts THEN counts[d] ELSE 0

\* variant: the weekday test is dropped
DayAllowedAny(day, allowed) == TRUE

\* `probe.weekday() in allowed_indices` / `current_date.weekday() in ...`
DayAllowed(day, allowed) == WeekdayOf(day) \in allowed

\* variant: the cap test admits one task too many
UnderCapInclusive(counts, day, limit) == Count(counts, day) <= limit

\* `day_counts.get(day, 0) < daily_limit`
UnderCap(counts, day, limit) == Count(counts, day) < limit

\* the first day >= d whose weekday is allowed (allowed must be non-empty)
FirstAllowedDay(d, allowed) ==
  CHOOSE e \in d..(d + 6) :
    /\ WeekdayOf(e) \in allowed
    /\ \A f \in d..(e - 1) : WeekdayOf(f) \notin allowed

\* next_allowed_probe: 09:00 of the next allowed day after dt_obj's day
NextAllowedProbe(dt_obj, allowed) ==
  Combine(FirstAllowedDay(DateOf(dt_obj) + 1, allowed), WORK_START)

\* the `while probe.date() <= deadline_date` loop of one task.  With no
\* allowed weekday, next_allowed_probe adds days until the date passes
\* datetime.max and the addition raises OverflowError: overflow is TRUE.
RECURSIVE CarveSearch(_, _, _, _, _, _, _)
CarveSearch(p, duration, deadline, limit, allowed, bz, counts) ==
  IF ~(DateOf(p) <= deadline)
  THEN [slot |-> <<>>, probe |-> p, overflow |-> FALSE]
  ELSE LET day == DateOf(p)
           slot == IF DayAllowed(day, allowed) /\ UnderCap(counts, day, limit)
                   THEN FirstFit(FreeWindows(bz, day), duration)
                   ELSE <<>>
       IN IF slot # <<>> THEN [slot |-> slot, probe |-> p, overflow |-> FALSE]
          ELSE IF allowed = {} THEN [slot |-> <<>>, probe |-> p, overflow |-> TRUE]
          ELSE CarveSearch(NextAllowedProbe(p, allowed), duration, deadline,
                           limit, allowed, bz, counts)

Bump(counts, d) ==
  [e \in DOMAIN counts \cup {d} |-> Count(counts, e) + IF e = d THEN 1 ELSE 0]

\* ------------------------------------------------ preferred-time mode
\* next_allowed_date_from: the first allowed day >= dt_obj.date()
NextAllowedDateFrom(d, allowed) == FirstAllowedDay(d, allowed)

WindowStartHr(pt) == PREFERRED_WINDOWS[pt][1]
WindowEndHr(pt) == PREFERRED_WINDOWS[pt][2]

\* step 2 of _schedule_by_preferred_time: the initial cursor
InitialCursor(start_dt, cd, pt) ==
  IF cd = DateOf(start_dt)
     /\ WindowStartHr(pt) <= HourOf(start_dt)
     /\ HourOf(start_dt) < WindowEndHr(pt)
  THEN start_dt
  ELSE Combine(cd, WindowStartHr(pt))

\* variant: only the task's start is held before window_end
FitsWindowLoose(c, duration, window_end) == c < window_end

\* the test that the task fits before window_end
FitsWindow(c, duration, window_end) == c + duration <= window_end

\* the `while current_date <= deadline_date` loop of one task
RECURSIVE PreferredSearch(_, _, _, _, _, _, _, _)
PreferredSearch(cd, cur, duration, deadline, limit, allowed, pt, counts) ==
  IF ~(cd <= deadline)
  THEN [slot |-> <<>>, current_date |-> cd, cursor |-> cur]
  ELSE LET open == DayAllowed(cd, allowed) /\ UnderCap(counts, cd, limit)
           window_end == Combine(cd, WindowEndHr(pt))
           earliest_allowed == Combine(cd, WindowStartHr(pt))
           c == IF open /\ cur < earliest_allowed THEN earliest_allowed
                ELSE cur
           next_date == NextAllowedDateFrom(cd + 1, allowed)
       IN IF open /\ FitsWindow(c, duration, window_end)
          THEN [slot |-> <<c, c + duration>>, current_date |-> cd,
                cursor |-> c + duration + BUFFER]
          ELSE IF next_date > deadline
               THEN [slot |-> <<>>, current_date |-> cd, cursor |-> c]
               ELSE PreferredSearch(next_date,
                                    Combine(next_date, WindowStartHr(pt)),
                                    duration, deadline, limit, allowed, pt,
                                    counts)

\* ---------------------------------------------------------------- inputs
\* duration_hours of 1 and 3 hours, in ticks
Durations == {2, 6}

TaskLists ==
  UNION {[1..n -> Durations] : n \in 0..MaxTasks}

MakeTasks(ds) ==
  [k \in 1..Len(ds) |-> [id |-> k, task |-> k, duration_hours |-> ds[k]]]

\* start_iso: Monday 01:00 and Friday 01:00 written in UTC (local: the
\* evening before), and Friday 20:00 written in local time
StartIsos ==
  {[day |-> 0, tod |-> 2, off |-> 14],
   [day |-> 4, tod |-> 2, off |-> 14],
   [day |-> 4, tod |-> 40, off |-> 0]}

Deadlines == 0..MaxDeadline

MaxPerDays == {<<>>} \cup {<<n>> : n \in 0..MaxLimit}

AllowedDaysInputs == {<<>>, <<"SA", "MO", "XX">>, <<"XX">>}

\* "None" is no preferred_time: like any other string it is not a key of
\* PREFERRED_WINDOWS
PreferredTimes == {"None", "morning", "noon"}

\* events on the calendar: Monday 10:00-10:30, Monday 10:00 to Tuesday 12:00
\* (it contains the first), and one on the day after the last deadline
BusyCandidates ==
  {<<Combine(0, 10), Combine(0, 10) + 1>>,
   <<Combine(0, 10), Combine(1, 12)>>,
   <<Combine(MaxDeadline + 1, 9), Combine(MaxDeadline + 1, 10)>>}

Calendars ==
  {c \in UNION {[1..n -> BusyCandidates] : n \in 0..MaxBusy} :
     \A j, k \in 1..Len(c) : j # k => c[j] # c[k]}

\* ----------------------------------------------------------------- state
VARIABLES
  tasks, start_iso, deadline_iso, max_per_day, allowed_days, preferred_time,
  calendar,
  pc, mode, list_status, fb_status,
  next_day_dt, deadline_date, daily_limit, allowed_indices, existing,
  busy, fetched, scheduled, unscheduled, day_counts, idx,
  probe, current_date, cursor,
  deadline_ok, ins, ids, inserted, response,
  peer_pc, peer_fetched, peer_scheduled, peer_inserted,
  session_state, session_credentials, last

\* the state of api_schedule around schedule_tasks: the index of the next
\* event create_calendar_events inserts, the ids it collected, the events
\* the calendar accepted, and the HTTP response
app == <<ins, ids, inserted, response, peer_pc, peer_fetched, peer_scheduled,
        peer_inserted, session_state, session_credentials, last>>

\* a second /api/schedule request against the same calendar: its position,
\* the busy list it fetched, the events it scheduled and those it inserted
peer == <<peer_pc, peer_fetched, peer_scheduled, peer_inserted>>

\* the Flask session (session["state"], session["credentials"]) and the
\* answer to the last /login or /oauth2callback request
web == <<session_state, session_credentials, last>>

\* events as (start, end) pairs, the form of freebusy periods
AsBusy(evs) == [k \in 1..Len(evs) |-> <<evs[k].start, evs[k].end>>]

\* what the calendar holds for this request's reads: the given events and
\* those the other request has inserted so far
Remote == calendar \o AsBusy(peer_inserted)

\* what the calendar holds for the other request's reads
RemoteForPeer == calendar \o AsBusy(inserted)

inputs ==
  <<tasks, start_iso, deadline_iso, deadline_ok, max_per_day, allowed_days,
    preferred_time, calendar>>

policy == <<next_day_dt, deadline_date, daily_limit, allowed_indices>>

vars ==
  <<tasks, start_iso, deadline_iso, max_per_day, allowed_days, preferred_time,
    calendar, pc, mode, list_status, fb_status, next_day_dt, deadline_date,
    daily_limit, allowed_indices, existing, busy, fetched, scheduled,
    unscheduled, day_counts, idx, probe, current_date, cursor, deadline_ok,
    ins, ids, inserted, response, peer_pc, peer_fetched, peer_scheduled,
    peer_inserted, session_state, session_credentials, last>>

NoResponse == [status |-> 0]

\* no /login, /oauth2callback or rejected API request was answered yet
NoRequest == [route |-> "none", status |-> 0, error |-> "", n |-> 0]

\* the locals of a call that has not started
FreshLocals ==
  /\ mode = "none"
  /\ list_status = "pending"
  /\ fb_status = "pending"
  /\ next_day_dt = 0
  /\ deadline_date = 0
  /\ daily_limit = 0
  /\ allowed_indices = {}
  /\ existing = <<>>
  /\ busy = <<>>
  /\ fetched = <<>>
  /\ scheduled = <<>>
  /\ unscheduled = <<>>
  /\ day_counts = <<>>
  /\ idx = 1
  /\ probe = 0
  /\ current_date = 0
  /\ cursor = 0
  /\ ins = 1
  /\ ids = <<>>
  /\ inserted = <<>>
  /\ response = NoResponse
  /\ peer_pc = "idle"
  /\ peer_fetched = <<>>
  /\ peer_scheduled = <<>>
  /\ peer_inserted = <<>>
  /\ session_state = "none"
  /\ session_credentials = "none"
  /\ last = NoRequest

\* a call that has not started, its service already built
Fresh == pc = "start" /\ FreshLocals

\* deadline_iso is the written date; deadline_ok is whether the string is one
\* datetime.fromisoformat accepts
DeadlineInputs ==
  {<<d, TRUE>> : d \in Deadlines} \cup {<<0, FALSE>>}

Init ==
  /\ tasks \in {MakeTasks(ds) : ds \in TaskLists}
  /\ start_iso \in StartIsos
  /\ \E di \in DeadlineInputs : deadline_iso = di[1] /\ deadline_ok = di[2]
  /\ max_per_day \in MaxPerDays
  /\ allowed_days \in AllowedDaysInputs
  /\ preferred_time \in PreferredTimes
  /\ calendar \in Calendars
  /\ Fresh

\* datetime.fromisoformat(deadline_iso) raises ValueError on a malformed
\* string; nothing in schedule_tasks catches it
DeadlineError ==
  /\ pc = "start"
  /\ ~deadline_ok
  /\ pc' = "raised"
  /\ UNCHANGED <<inputs, policy, mode, list_status, fb_status, existing, busy,
                 fetched, scheduled, unscheduled, day_counts, idx, probe,
                 current_date, cursor, app>>

\* -------------------------------------------------------- schedule_tasks
\* steps 1 and 2: the horizon start, the policy values and the existence
\* probe; `ok` is whether events().list answered
ProbeEvents(ok) ==
  /\ pc = "start"
  /\ deadline_ok
  /\ next_day_dt' = NextDayDt(start_iso)
  /\ deadline_date' = DeadlineDate(deadline_iso)
  /\ daily_limit' = DailyLimit(max_per_day)
  /\ allowed_indices' = AllowedIndices(allowed_days)
  /\ existing' = IF ok THEN EventsList(Remote, NextDayDt(start_iso))
                 ELSE <<>>
  /\ list_status' = IF ok THEN "ok" ELSE "error"
  /\ pc' = "select"
  /\ UNCHANGED <<inputs, mode, fb_status, busy, fetched, scheduled,
                 unscheduled, day_counts, idx, probe, current_date, cursor,
                 app>>

ProbeEventsOk == ProbeEvents(TRUE)

\* except Exception: existing = []
ProbeEventsFail == ProbeEvents(FALSE)

\* variant: the mode test looks at preferred_time only
UsePreferredIgnoresProbe(ex, pt) == pt \in DOMAIN PREFERRED_WINDOWS

\* the mode test of schedule_tasks
UsePreferred(ex, pt) == ex = <<>> /\ pt \in DOMAIN PREFERRED_WINDOWS

\* preferred_time is valid and nothing was found: enter
\* _schedule_by_preferred_time and set its first date and cursor.  With no
\* allowed weekday, next_allowed_date_from adds days until date.max and
\* raises OverflowError.
EnterPreferred ==
  /\ pc = "select"
  /\ UsePreferred(existing, preferred_time)
  /\ mode' = "preferred"
  /\ IF allowed_indices = {}
     THEN /\ pc' = "overflow"
          /\ UNCHANGED <<current_date, cursor>>
     ELSE /\ pc' = "pref"
          /\ current_date' =
               NextAllowedDateFrom(DateOf(next_day_dt), allowed_indices)
          /\ cursor' = InitialCursor(next_day_dt, current_date',
                                     preferred_time)
  /\ UNCHANGED <<inputs, policy, list_status, fb_status, existing, busy,
                 fetched, scheduled, unscheduled, day_counts, idx, probe,
                 app>>

\* the probe of _schedule_by_freebusy starts at start_dt, not before 09:00
InitialProbe(start_dt) ==
  IF HourOf(start_dt) < WORK_START
  THEN Combine(DateOf(start_dt), WORK_START)
  ELSE start_dt

\* otherwise: freebusy().query over [next_day_dt, deadline + 1 day), then
\* enter _schedule_by_freebusy.  outcome is "ok", "HttpError" or "malformed"
\* (any failure that is not an HttpError, such as a response without the
\* "calendars" key)
FetchBusy(outcome) ==
  /\ pc = "select"
  /\ ~UsePreferred(existing, preferred_time)
  /\ mode' = "freebusy"
  /\ fb_status' = outcome
  /\ IF outcome = "malformed"
     THEN /\ pc' = "raised"
          /\ UNCHANGED <<busy, fetched, probe>>
     ELSE /\ pc' = "carve"
          /\ busy' = IF outcome = "ok"
                     THEN FreeBusyQuery(Remote, next_day_dt,
                                        Combine(deadline_date + 1, 0))
                     ELSE <<>>
          /\ fetched' = busy'
          /\ probe' = InitialProbe(next_day_dt)
  /\ UNCHANGED <<inputs, policy, list_status, existing, scheduled,
                 unscheduled, day_counts, idx, current_date, cursor, app>>

FetchBusyOk == FetchBusy("ok")

\* except HttpError: busy = []
FetchBusyHttpError == FetchBusy("HttpError")

\* any other exception leaves schedule_tasks
FetchBusyMalformed == FetchBusy("malformed")

\* variant: the event runs on through the buffer after the task
EventWithBuffer(t, slot) ==
  [summary |-> t.task, start |-> slot[1], end |-> slot[2] + BUFFER]

Event(t, slot) == [summary |-> t.task, start |-> slot[1], end |-> slot[2]]

Unplaced(t) == [id |-> t.id, task |-> t.task]

\* variant: a task that found no slot is not recorded
WithUnplacedLost(unsched, t) == unsched

\* `if not slot:` / `if not placed:` unscheduled.append(...)
WithUnplaced(unsched, t) == Append(unsched, Unplaced(t))

\* variant: after a placement the probe goes back to 09:00 of the day before
ProbeAfterSlotRewound(slot) == Combine(DateOf(slot[1]) - 1, WORK_START)

\* `probe = slot_end + BUFFER`: where the next task's search resumes
ProbeAfterSlot(slot) == slot[2] + BUFFER

\* variant: the probe is set again from start_dt for every task
CarriedProbeReset(p, start_dt) == InitialProbe(start_dt)

\* probe is a local of the function, not of the loop body: when the search
\* for one task ends without a slot, the next task starts from the same probe
CarriedProbe(p, start_dt) == p

\* variant: the placement is blocked without its buffer
SyntheticBusyNoBuffer(slot) == <<slot[1], slot[2]>>

\* the synthetic busy interval appended after a placement
SyntheticBusy(slot) == <<slot[1], slot[2] + BUFFER>>

\* one iteration of `for t in tasks` in _schedule_by_freebusy
CarveTask ==
  /\ pc = "carve"
  /\ idx <= Len(tasks)
  /\ LET t == tasks[idx]
         r == CarveSearch(probe, Duration(t), deadline_date, daily_limit,
                          allowed_indices, busy, day_counts)
     IN IF r.overflow
        THEN /\ pc' = "overflow"
             /\ UNCHANGED <<busy, scheduled, unscheduled, day_counts, idx,
                            probe>>
        ELSE /\ pc' = pc
             /\ idx' = idx + 1
             /\ IF r.slot = <<>>
                THEN /\ unscheduled' = WithUnplaced(unscheduled, t)
                     /\ probe' = CarriedProbe(r.probe, next_day_dt)
                     /\ UNCHANGED <<busy, scheduled, day_counts>>
                ELSE /\ scheduled' = Append(scheduled, Event(t, r.slot))
                     /\ busy' = Append(busy, SyntheticBusy(r.slot))
                     /\ day_counts' = Bump(day_counts, DateOf(r.slot[1]))
                     /\ probe' = ProbeAfterSlot(r.slot)
                     /\ UNCHANGED unscheduled
  /\ UNCHANGED <<inputs, policy, mode, list_status, fb_status, existing,
                 fetched, current_date, cursor, app>>

\* one iteration of `for t in tasks` in _schedule_by_preferred_time
PreferredTask ==
  /\ pc = "pref"
  /\ idx <= Len(tasks)
  /\ LET t == tasks[idx]
         r == PreferredSearch(current_date, cursor, Duration(t),
                              deadline_date, daily_limit, allowed_indices,
                              preferred_time, day_counts)
     IN /\ idx' = idx + 1
        /\ current_date' = r.current_date
        /\ cursor' = r.cursor
        /\ IF r.slot = <<>>
           THEN /\ unscheduled' = WithUnplaced(unscheduled, t)
                /\ UNCHANGED <<scheduled, day_counts>>
           ELSE /\ scheduled' = Append(scheduled, Event(t, r.slot))
                /\ day_counts' = Bump(day_counts, r.current_date)
                /\ UNCHANGED unscheduled
  /\ UNCHANGED <<inputs, policy, pc, mode, list_status, fb_status, existing,
                 busy, fetched, probe, app>>

\* return scheduled, unscheduled
Return ==
  /\ pc \in {"carve", "pref"}
  /\ idx > Len(tasks)
  /\ pc' = "done"
  /\ UNCHANGED <<inputs, policy, mode, list_status, fb_status, existing, busy,
                 fetched, scheduled, unscheduled, day_counts, idx, probe,
                 current_date, cursor, app>>

Next ==
  \/ DeadlineError
  \/ ProbeEventsOk
  \/ ProbeEventsFail
  \/ EnterPreferred
  \/ FetchBusyOk
  \/ FetchBusyHttpError
  \/ FetchBusyMalformed
  \/ CarveTask
  \/ PreferredTask
  \/ Return

Spec == Init /\ [][Next]_vars

\* ------------------------------------------------------------- scenarios
\* the task lists of the documented scenarios: three 2-hour tasks, two
\* 3-hour tasks, a 14-hour task alone and after a 1-hour task
ScenarioTasks == {<<4, 4, 4>>, <<6, 6>>, <<28>>, <<2, 28>>}

\* calendars of the scenarios: empty, one entry over the whole working
\* window of the first Monday, and that entry after a short one
ScenarioCalendars ==
  {<<>>,
   <<<<Combine(0, WORK_START), Combine(0, WORK_END)>>>>,
   <<<<Combine(0, 10), Combine(0, 10) + 1>>,
     <<Combine(0, WORK_START), Combine(0, WORK_END)>>>>}

InitScenario ==
  /\ tasks \in {MakeTasks(ds) : ds \in ScenarioTasks}
  /\ start_iso \in StartIsos
  /\ \E di \in DeadlineInputs : deadline_iso = di[1] /\ deadline_ok = di[2]
  /\ max_per_day \in MaxPerDays
  /\ allowed_days \in AllowedDaysInputs
  /\ preferred_time \in PreferredTimes
  /\ calendar \in ScenarioCalendars
  /\ Fresh

SpecScenario == InitScenario /\ [][Next]_vars

\* ------------------------------------------------- the carve run as a fold
\* one pass of the loop body of _schedule_by_freebusy over task t, on the
\* function's locals st
CarveStep(st, t, deadline, limit, allowed) ==
  LET r == CarveSearch(st.probe, Duration(t), deadline, limit, allowed,
                       st.busy, st.day_counts)
  IN IF st.overflow \/ r.overflow THEN [st EXCEPT !.overflow = TRUE]
     ELSE IF r.slot = <<>>
          THEN [st EXCEPT !.unscheduled = WithUnplaced(@, t),
                          !.probe = CarriedProbe(r.probe, st.start_dt)]
          ELSE [st EXCEPT !.scheduled = Append(@, Event(t, r.slot)),
                          !.busy = Append(@, SyntheticBusy(r.slot)),
                          !.day_counts = Bump(@, DateOf(r.slot[1])),
                          !.probe = ProbeAfterSlot(r.slot)]

RECURSIVE CarveFold(_, _, _, _, _, _)
CarveFold(ts, k, st, deadline, limit, allowed) ==
  IF k > Len(ts) THEN st
  ELSE CarveFold(ts, k + 1, CarveStep(st, ts[k], deadline, limit, allowed),
                 deadline, limit, allowed)

\* _schedule_by_freebusy(tasks, start_dt, deadline_date, daily_limit,
\* allowed_indices, busy): the returned pair
ScheduleByFreebusy(ts, start_dt, deadline, limit, allowed, bz) ==
  LET st == CarveFold(ts, 1,
                      [busy |-> bz, scheduled |-> <<>>, unscheduled |-> <<>>,
                       day_counts |-> <<>>, probe |-> InitialProbe(start_dt),
                       start_dt |-> start_dt,
                       overflow |-> FALSE],
                      deadline, limit, allowed)
  IN [scheduled |-> st.scheduled, unscheduled |-> st.unscheduled,
      overflow |-> st.overflow]

\* ---------------------------------------------------------- api_schedule
\* a request to /api/schedule with a calendar service: max_per_day is
\* settings.maxHoursPerDay, allowed_days is settings.allowedDaysOfWeek, and
\* no preferred_time is passed to schedule_tasks
InitApp ==
  /\ tasks \in {MakeTasks(ds) : ds \in TaskLists}
  /\ start_iso \in StartIsos
  /\ \E di \in DeadlineInputs : deadline_iso = di[1] /\ deadline_ok = di[2]
  /\ max_per_day \in MaxPerDays
  /\ allowed_days \in AllowedDaysInputs
  /\ preferred_time = "None"
  /\ calendar \in Calendars
  /\ Fresh

\* the except branch of api_schedule; message stands for str(e)
Failure(message) ==
  [status |-> 500, error |-> "schedule_failed", message |-> message]

\* created.get("id"): the calendar numbers the events it accepts
NewId(accepted) == Len(accepted) + 1

\* variant: the calendar drops an event that meets one it already holds
AfterInsertIfFree(accepted, ev, remote) ==
  IF \E b \in 1..Len(remote) :
       ~(ev.end <= remote[b][1] \/ remote[b][2] <= ev.start)
  THEN accepted
  ELSE Append(accepted, ev)

\* events().insert(calendarId="primary", body=body).execute(): the calendar
\* takes the event whatever it already holds
AfterInsert(accepted, ev, remote) == Append(accepted, ev)

\* create_calendar_events, one iteration whose insert succeeds
InsertEventOk ==
  /\ pc = "done"
  /\ response = NoResponse
  /\ ins <= Len(scheduled)
  /\ inserted' = AfterInsert(inserted, scheduled[ins], Remote)
  /\ ids' = Append(ids, NewId(inserted))
  /\ ins' = ins + 1
  /\ UNCHANGED <<inputs, policy, pc, mode, list_status, fb_status, existing,
                 busy, fetched, scheduled, unscheduled, day_counts, idx,
                 probe, current_date, cursor, response, peer, web>>

\* create_calendar_events, an iteration whose insert raises: the exception
\* leaves the loop and the function, and api_schedule answers 500
InsertEventFail ==
  /\ pc = "done"
  /\ response = NoResponse
  /\ ins <= Len(scheduled)
  /\ response' = Failure("insert")
  /\ UNCHANGED <<inputs, policy, pc, mode, list_status, fb_status, existing,
                 busy, fetched, scheduled, unscheduled, day_counts, idx,
                 probe, current_date, cursor, ins, ids, inserted, peer, web>>

\* return jsonify({"eventIds": ids, "unscheduled": unscheduled})
RespondOk ==
  /\ pc = "done"
  /\ response = NoResponse
  /\ ins > Len(scheduled)
  /\ response' = [status |-> 200, eventIds |-> ids,
                  unscheduled |-> unscheduled]
  /\ UNCHANGED <<inputs, policy, pc, mode, list_status, fb_status, existing,
                 busy, fetched, scheduled, unscheduled, day_counts, idx,
                 probe, current_date, cursor, ins, ids, inserted, peer, web>>

\* schedule_tasks raised: api_schedule answers 500
RespondError ==
  /\ pc \in {"raised", "overflow"}
  /\ response = NoResponse
  /\ response' = Failure("schedule")
  /\ UNCHANGED <<inputs, policy, pc, mode, list_status, fb_status, existing,
                 busy, fetched, scheduled, unscheduled, day_counts, idx,
                 probe, current_date, cursor, ins, ids, inserted, peer, web>>

NextApp ==
  \/ DeadlineError
  \/ ProbeEventsOk
  \/ ProbeEventsFail
  \/ FetchBusyOk
  \/ FetchBusyHttpError
  \/ FetchBusyMalformed
  \/ CarveTask
  \/ Return
  \/ InsertEventOk
  \/ InsertEventFail
  \/ RespondOk
  \/ RespondError

SpecApp == InitApp /\ [][NextApp]_vars

\* ------------------------------------------- two concurrent requests
\* the other request sends the same body.  api_schedule passes no
\* preferred_time, so its schedule_tasks always fetches the busy list once
\* and carves; between its reads and its inserts it does not touch the
\* calendar, so its scheduling is one step.  httpError is whether
\* freebusy().query raised HttpError (busy = []).
PeerSchedule(httpError) ==
  /\ peer_pc = "idle"
  /\ deadline_ok
  /\ LET start_dt == NextDayDt(start_iso)
         snapshot == IF httpError THEN <<>>
                     ELSE FreeBusyQuery(RemoteForPeer, start_dt,
                            Combine(DeadlineDate(deadline_iso) + 1, 0))
         r == ScheduleByFreebusy(tasks, start_dt, DeadlineDate(deadline_iso),
                                 DailyLimit(max_per_day),
                                 AllowedIndices(allowed_days), snapshot)
     IN /\ peer_fetched' = snapshot
        /\ IF r.overflow
           THEN peer_pc' = "failed" /\ UNCHANGED peer_scheduled
           ELSE peer_pc' = "inserting" /\ peer_scheduled' = r.scheduled
  /\ UNCHANGED <<inputs, policy, pc, mode, list_status, fb_status, existing,
                 busy, fetched, scheduled, unscheduled, day_counts, idx,
                 probe, current_date, cursor, ins, ids, inserted, response,
                 peer_inserted, web>>

PeerScheduleOk == PeerSchedule(FALSE)

PeerScheduleHttpError == PeerSchedule(TRUE)

\* the other request's create_calendar_events, one insert
PeerInsert ==
  /\ peer_pc = "inserting"
  /\ Len(peer_inserted) < Len(peer_scheduled)
  /\ peer_inserted' =
       AfterInsert(peer_inserted, peer_scheduled[Len(peer_inserted) + 1],
                   RemoteForPeer)
  /\ UNCHANGED <<inputs, policy, pc, mode, list_status, fb_status, existing,
                 busy, fetched, scheduled, unscheduled, day_counts, idx,
                 probe, current_date, cursor, ins, ids, inserted, response,
                 peer_pc, peer_fetched, peer_scheduled, web>>

\* the other request answers 200
PeerRespond ==
  /\ peer_pc = "inserting"
  /\ Len(peer_inserted) = Len(peer_scheduled)
  /\ peer_pc' = "done"
  /\ UNCHANGED <<inputs, policy, pc, mode, list_status, fb_status, existing,
                 busy, fetched, scheduled, unscheduled, day_counts, idx,
                 probe, current_date, cursor, ins, ids, inserted, response,
                 peer_fetched, peer_scheduled, peer_inserted, web>>

\* the other request ends in the except branch: a malformed deadline, a
\* read that raised, or an insert that raised
PeerFail ==
  /\ \/ peer_pc = "idle"
     \/ peer_pc = "inserting" /\ Len(peer_inserted) < Len(peer_scheduled)
  /\ peer_pc' = "failed"
  /\ UNCHANGED <<inputs, policy, pc, mode, list_status, fb_status, existing,
                 busy, fetched, scheduled, unscheduled, day_counts, idx,
                 probe, current_date, cursor, ins, ids, inserted, response,
                 peer_fetched, peer_scheduled, peer_inserted, web>>

\* bodies of the two requests: a 1-hour task, or a 3-hour and a 1-hour task
RaceTasks == {<<2>>, <<6, 2>>}

\* the calendar before the two requests: empty, or Monday 10:00-10:30
RaceCalendars == {<<>>, <<<<Combine(0, 10), Combine(0, 10) + 1>>>>}

InitRace ==
  /\ tasks \in {MakeTasks(ds) : ds \in RaceTasks}
  /\ start_iso \in StartIsos
  /\ \E di \in {<<0, TRUE>>, <<1, TRUE>>, <<0, FALSE>>} :
       deadline_iso = di[1] /\ deadline_ok = di[2]
  /\ max_per_day \in MaxPerDays
  /\ allowed_days = <<>>
  /\ preferred_time = "None"
  /\ calendar \in RaceCalendars
  /\ Fresh

NextRace ==
  \/ NextApp
  \/ PeerScheduleOk
  \/ PeerScheduleHttpError
  \/ PeerInsert
  \/ PeerRespond
  \/ PeerFail

SpecRace == InitRace /\ [][NextRace]_vars

\* ------------------------------------------------------ OAuth session
\* requests of one session are answered one after another
InFlight == pc # "idle" /\ response = NoResponse

\* the answer to a request; n alternates so that every answer is a new value
Answer(route, status, error) ==
  [route |-> route, status |-> status, error |-> error, n |-> 1 - last.n]

\* /login: session.clear(), then session["state"] = state and a redirect
LoginOk ==
  /\ ~InFlight
  /\ session_state' = "pending"
  /\ session_credentials' = "none"
  /\ last' = Answer("login", 302, "")
  /\ UNCHANGED <<inputs, policy, pc, mode, list_status, fb_status, existing,
                 busy, fetched, scheduled, unscheduled, day_counts, idx,
                 probe, current_date, cursor, ins, ids, inserted, response,
                 peer>>

\* /login: building the flow raises after session.clear()
LoginFail ==
  /\ ~InFlight
  /\ session_state' = "none"
  /\ session_credentials' = "none"
  /\ last' = Answer("login", 500, "login_failed")
  /\ UNCHANGED <<inputs, policy, pc, mode, list_status, fb_status, existing,
                 busy, fetched, scheduled, unscheduled, day_counts, idx,
                 probe, current_date, cursor, ins, ids, inserted, response,
                 peer>>

\* variant: the callback goes on without a pending state
HasStateAlways(state) == TRUE

\* `state = session.pop("state", None)` / `if not state`
HasState(state) == state # "none"

\* /oauth2callback with no pending state: 400 invalid_state
CallbackNoState ==
  /\ ~InFlight
  /\ ~HasState(session_state)
  /\ last' = Answer("oauth2callback", 400, "invalid_state")
  /\ UNCHANGED <<inputs, policy, pc, mode, list_status, fb_status, existing,
                 busy, fetched, scheduled, unscheduled, day_counts, idx,
                 probe, current_date, cursor, ins, ids, inserted, response,
                 peer, session_state, session_credentials>>

\* /oauth2callback: the state is popped, fetch_token succeeds and the
\* credentials are stored
CallbackOk ==
  /\ ~InFlight
  /\ HasState(session_state)
  /\ session_state' = "none"
  /\ session_credentials' = "valid"
  /\ last' = Answer("oauth2callback", 302, "")
  /\ UNCHANGED <<inputs, policy, pc, mode, list_status, fb_status, existing,
                 busy, fetched, scheduled, unscheduled, day_counts, idx,
                 probe, current_date, cursor, ins, ids, inserted, response,
                 peer>>

\* /oauth2callback: the state is popped and fetch_token raises (a state
\* mismatch, a denied consent, a network error)
CallbackFail ==
  /\ ~InFlight
  /\ HasState(session_state)
  /\ session_state' = "none"
  /\ last' = Answer("oauth2callback", 500, "oauth_callback_failed")
  /\ UNCHANGED <<inputs, policy, pc, mode, list_status, fb_status, existing,
                 busy, fetched, scheduled, unscheduled, day_counts, idx,
                 probe, current_date, cursor, ins, ids, inserted, response,
                 peer, session_credentials>>

\* time passes and creds.valid becomes False
TokenExpires ==
  /\ session_credentials = "valid"
  /\ session_credentials' = "expired"
  /\ UNCHANGED <<inputs, policy, pc, mode, list_status, fb_status, existing,
                 busy, fetched, scheduled, unscheduled, day_counts, idx,
                 probe, current_date, cursor, ins, ids, inserted, response,
                 peer, session_state, last>>

\* /api/schedule, get_calendar_service: no credentials in the session
NotAuthenticated ==
  /\ pc = "idle"
  /\ session_credentials = "none"
  /\ last' = Answer("api_schedule", 401, "not_authenticated")
  /\ UNCHANGED <<inputs, policy, pc, mode, list_status, fb_status, existing,
                 busy, fetched, scheduled, unscheduled, day_counts, idx,
                 probe, current_date, cursor, ins, ids, inserted, response,
                 peer, session_state, session_credentials>>

\* get_calendar_service: the credentials are valid, or were refreshed; they
\* are written back and the service is built
ServiceBuilt ==
  /\ pc = "idle"
  /\ session_credentials \in {"valid", "expired"}
  /\ session_credentials' = "valid"
  /\ pc' = "start"
  /\ UNCHANGED <<inputs, policy, mode, list_status, fb_status, existing,
                 busy, fetched, scheduled, unscheduled, day_counts, idx,
                 probe, current_date, cursor, ins, ids, inserted, response,
                 peer, session_state, last>>

\* get_calendar_service: creds.refresh raises RefreshError: session.clear()
ServiceRefreshError ==
  /\ pc = "idle"
  /\ session_credentials = "expired"
  /\ session_state' = "none"
  /\ session_credentials' = "none"
  /\ last' = Answer("api_schedule", 401, "not_authenticated")
  /\ UNCHANGED <<inputs, policy, pc, mode, list_status, fb_status, existing,
                 busy, fetched, scheduled, unscheduled, day_counts, idx,
                 probe, current_date, cursor, ins, ids, inserted, response,
                 peer>>

\* get_calendar_service: creds.refresh raises something else, which nothing
\* catches: the framework answers 500 and the session is as it was
ServiceRefreshRaises ==
  /\ pc = "idle"
  /\ session_credentials = "expired"
  /\ last' = Answer("api_schedule", 500, "")
  /\ UNCHANGED <<inputs, policy, pc, mode, list_status, fb_status, existing,
                 busy, fetched, scheduled, unscheduled, day_counts, idx,
                 probe, current_date, cursor, ins, ids, inserted, response,
                 peer, session_state, session_credentials>>

\* the request was answered: the next /api/schedule starts with new locals
NextRequest ==
  /\ pc # "idle"
  /\ response # NoResponse
  /\ pc' = "idle"
  /\ mode' = "none"
  /\ list_status' = "pending"
  /\ fb_status' = "pending"
  /\ next_day_dt' = 0
  /\ deadline_date' = 0
  /\ daily_limit' = 0
  /\ allowed_indices' = {}
  /\ existing' = <<>>
  /\ busy' = <<>>
  /\ fetched' = <<>>
  /\ scheduled' = <<>>
  /\ unscheduled' = <<>>
  /\ day_counts' = <<>>
  /\ idx' = 1
  /\ probe' = 0
  /\ current_date' = 0
  /\ cursor' = 0
  /\ ins' = 1
  /\ ids' = <<>>
  /\ inserted' = <<>>
  /\ response' = NoResponse
  /\ UNCHANGED <<inputs, peer, web>>

\* one body for /api/schedule: a 1-hour task, with a well-formed or a
\* malformed deadline
InitOAuth ==
  /\ tasks = MakeTasks(<<2>>)
  /\ start_iso = [day |-> 0, tod |-> 2, off |-> 14]
  /\ \E di \in {<<1, TRUE>>, <<0, FALSE>>} :
       deadline_iso = di[1] /\ deadline_ok = di[2]
  /\ max_per_day = <<>>
  /\ allowed_days = <<>>
  /\ preferred_time = "None"
  /\ calendar = <<>>
  /\ pc = "idle"
  /\ FreshLocals

NextOAuth ==
  \/ LoginOk
  \/ LoginFail
  \/ CallbackNoState
  \/ CallbackOk
  \/ CallbackFail
  \/ TokenExpires
  \/ NotAuthenticated
  \/ ServiceBuilt
  \/ ServiceRefreshError
  \/ ServiceRefreshRaises
  \/ NextApp
  \/ NextRequest

SpecOAuth == InitOAuth /\ [][NextOAuth]_vars

\* ------------------------------------------------------------ properties
Disjoint(a1, a2, b1, b2) == a2 <= b1 \/ b2 <= a1

Placed == 1..Len(scheduled)

EventDay(k) == DateOf(scheduled[k].start)

\* C1: no two scheduled events intersect when each is extended by its
\* trailing 1-hour buffer: for distinct X and Y, [X.start, X.end + BUFFER)
\* and [Y.start, Y.end) are disjoint.
C1_NoOverlapWithBuffer ==
  \A x, y \in Placed :
    x # y => Disjoint(scheduled[x].start, scheduled[x].end + BUFFER,
                      scheduled[y].start, scheduled[y].end)

\* C2: in free-busy carve mode no scheduled event intersects a busy interval
\* that was fetched from the calendar, and no two scheduled events of the run
\* intersect each other.
C2_CarveAvoidsBusy ==
  mode = "freebusy" =>
    /\ \A x \in Placed : \A k \in 1..Len(fetched) :
         Disjoint(scheduled[x].start, scheduled[x].end,
                  fetched[k][1], fetched[k][2])
    /\ \A x, y \in Placed :
         x # y => Disjoint(scheduled[x].start, scheduled[x].end,
                           scheduled[y].start, scheduled[y].end)

\* a finished carve run that fetched two intersecting busy intervals, the
\* later-starting one listed first, and placed a task on each of the two days
\* they cover
C2_Witness ==
  /\ pc = "done"
  /\ mode = "freebusy"
  /\ Len(scheduled) = 2
  /\ \E j, k \in 1..Len(fetched) :
       /\ j < k
       /\ ~Disjoint(fetched[j][1], fetched[j][2], fetched[k][1], fetched[k][2])
       /\ DateOf(fetched[k][1]) = EventDay(1)
       /\ DateOf(fetched[k][2]) = EventDay(2)
       /\ EventDay(1) < EventDay(2)

\* C3: walking the scheduled events in the order they were placed, each
\* start is at or after the end plus the 1-hour buffer of the event placed
\* before it.
C3_MonotonicCursor ==
  \A k \in Placed :
    k > 1 => scheduled[k].start >= scheduled[k - 1].end + BUFFER

\* the daily limit the caller asked for
GivenLimit ==
  IF max_per_day = <<>> THEN DEFAULT_MAX_TASKS_PER_DAY ELSE max_per_day[1]

EventsOn(d) == {k \in Placed : EventDay(k) = d}

\* C4: for every calendar day the number of scheduled events that start on
\* it is at most the daily limit (max_per_day if given, otherwise 2).
C4_CountCap ==
  \A k \in Placed : Cardinality(EventsOn(EventDay(k))) <= GivenLimit

\* a finished run in which a day is filled to its limit and the next task
\* went to a later day
C4_Witness ==
  /\ pc = "done"
  /\ \E k \in Placed :
       /\ k > 1
       /\ Cardinality(EventsOn(EventDay(k - 1))) = GivenLimit
       /\ EventDay(k) > EventDay(k - 1)

\* C5: every scheduled event lies within its day's effective window:
\* 09:00-22:00 of its day in carve mode, the chosen preferred window of its
\* day in preferred-window mode.
C5_WindowContainment ==
  \A k \in Placed :
    /\ mode = "freebusy" =>
         /\ Combine(EventDay(k), WORK_START) <= scheduled[k].start
         /\ scheduled[k].end <= Combine(EventDay(k), WORK_END)
    /\ mode = "preferred" =>
         /\ Combine(EventDay(k), PREFERRED_WINDOWS[preferred_time][1])
              <= scheduled[k].start
         /\ scheduled[k].end
              <= Combine(EventDay(k), PREFERRED_WINDOWS[preferred_time][2])

\* a preferred-window run with an event that ends exactly at the window's end
C5_Witness ==
  /\ pc = "done"
  /\ mode = "preferred"
  /\ \E k \in Placed :
       scheduled[k].end
         = Combine(EventDay(k), PREFERRED_WINDOWS[preferred_time][2])

\* the weekdays the caller allowed
GivenWeekdays ==
  IF allowed_days = <<>> THEN {0, 1, 2, 3, 4}
  ELSE {CODE_TO_WEEKDAY[c] :
          c \in {allowed_days[k] : k \in 1..Len(allowed_days)}
                  \cap DOMAIN CODE_TO_WEEKDAY}

\* C6: every scheduled event starts on a day whose weekday is in the allowed
\* set (the supplied codes, or Monday-Friday when none are supplied).
C6_WeekdayValidity ==
  \A k \in Placed : WeekdayOf(EventDay(k)) \in GivenWeekdays

\* an event placed on the Monday after a horizon that starts on a Saturday
\* which is not an allowed day
C6_Witness ==
  /\ WeekdayOf(DateOf(next_day_dt)) = 5
  /\ 5 \notin GivenWeekdays
  /\ \E k \in Placed : EventDay(k) = DateOf(next_day_dt) + 2

\* the local calendar day of start_iso
StartDay == DateOf(start_iso.day * Hr(24) + start_iso.tod - start_iso.off)

\* the first allowed day after the start day lies after the deadline
NoEligibleDay ==
  \A d \in (StartDay + 1)..deadline_iso : WeekdayOf(d) \notin GivenWeekdays

\* C7: every scheduled event falls on a day strictly after the (local)
\* calendar day of start_iso and no later than the deadline day, and when the
\* first eligible day is after the deadline every task is unscheduled.
C7_HorizonContainment ==
  /\ \A k \in Placed :
       /\ EventDay(k) > StartDay
       /\ EventDay(k) <= deadline_iso
       /\ DateOf(scheduled[k].end) <= deadline_iso
  /\ (pc = "done" /\ NoEligibleDay) =>
       /\ scheduled = <<>>
       /\ Len(unscheduled) = Len(tasks)

\* a run that placed an event on the day after the start day, which is also
\* the deadline day
C7_Witness ==
  /\ pc = "done"
  /\ \E k \in Placed : EventDay(k) = deadline_iso /\ EventDay(k) = StartDay + 1

\* a finished run with no eligible day and a non-empty task list
C7_WitnessNoDay ==
  pc = "done" /\ NoEligibleDay /\ Len(tasks) > 0

StrictlyIncreasing(s) == \A j, k \in 1..Len(s) : j < k => s[j] < s[k]

\* C8: when the run returns, each input task is in exactly one of the two
\* output lists, so len(scheduled) + len(unscheduled) = len(tasks), and both
\* lists keep the input order.
C8_ResultPartition ==
  pc = "done" =>
    LET sIds == [k \in 1..Len(scheduled) |-> scheduled[k].summary]
        uIds == [k \in 1..Len(unscheduled) |-> unscheduled[k].id]
        sSet == {sIds[k] : k \in 1..Len(sIds)}
        uSet == {uIds[k] : k \in 1..Len(uIds)}
    IN /\ Len(scheduled) + Len(unscheduled) = Len(tasks)
       /\ sSet \cap uSet = {}
       /\ sSet \cup uSet = 1..Len(tasks)
       /\ StrictlyIncreasing(sIds)
       /\ StrictlyIncreasing(uIds)
       /\ \A k \in 1..Len(unscheduled) :
            unscheduled[k].task = tasks[unscheduled[k].id].task

\* a finished run with an unscheduled task followed by a scheduled one
C8_Witness ==
  /\ pc = "done"
  /\ \E j \in 1..Len(unscheduled) : \E k \in Placed :
       unscheduled[j].id < scheduled[k].summary

ValidPreferred == preferred_time \in DOMAIN PREFERRED_WINDOWS

\* some calendar entry intersects [horizonStart, deadline + 1 day)
BusyInRange ==
  \E k \in 1..Len(calendar) :
    /\ calendar[k][1] < Combine(deadline_iso + 1, 0)
    /\ calendar[k][2] > next_day_dt

\* some calendar entry ends after horizonStart
EventFromStart ==
  \E k \in 1..Len(calendar) : calendar[k][2] > next_day_dt

\* C9 as stated: preferred-window mode is chosen if and only if a valid
\* preferred window was supplied and no busy interval exists within
\* [horizonStart, deadline + 1 day); entries outside that range do not
\* influence the choice.
C9_ModeByRange ==
  mode # "none" => (mode = "preferred" <=> (ValidPreferred /\ ~BusyInRange))

\* C9 amended: preferred-window mode is chosen if and only if a valid
\* preferred window was supplied and the existence probe reported no entry
\* ending after horizonStart (the probe has no upper limit, and a failed
\* probe reports nothing); the choice holds for the rest of the run.
C9_ModeByProbe ==
  mode # "none" =>
    (mode = "preferred" <=>
       (ValidPreferred /\ (list_status = "error" \/ ~EventFromStart)))

\* a finished carve run with a valid preferred window whose only calendar
\* entries lie after the deadline
C9_Witness ==
  /\ pc = "done"
  /\ mode = "freebusy"
  /\ ValidPreferred
  /\ list_status = "ok"
  /\ calendar # <<>>
  /\ ~BusyInRange

\* C10: if either calendar read fails, with any kind of failure, the run is
\* not aborted: it proceeds as if there were no busy intervals and does not
\* raise.
C10_FetchFailureDegrades ==
  (list_status = "error" \/ fb_status \in {"HttpError", "malformed"}) =>
    /\ pc # "raised"
    /\ mode = "freebusy" => fetched = <<>>

\* C11: when create_calendar_events inserts the scheduled events and one
\* insert fails, the remaining events are still attempted, the events already
\* inserted stay, and the caller still receives the ids of the inserted
\* events: every response after schedule_tasks returned is a 200 that carries
\* the collected ids, with every event attempted.
C11_InsertFailureNotFatal ==
  (pc = "done" /\ response # NoResponse) =>
    /\ response.status = 200
    /\ response.eventIds = ids
    /\ Len(response.eventIds) = Len(inserted)
    /\ ins > Len(scheduled)

\* C12: when the deadline string is malformed the run does not fail; the
\* engine falls back to a 7-day horizon from the current day and goes on to
\* place tasks.
C12_MalformedDeadlineFallsBack ==
  ~deadline_ok =>
    /\ pc # "raised"
    /\ pc # "start" => deadline_date = StartDay + 7

\* the summed duration, in ticks, of the events among ks
RECURSIVE TicksOf(_)
TicksOf(ks) ==
  IF ks = {} THEN 0
  ELSE LET k == CHOOSE k \in ks : TRUE
       IN (scheduled[k].end - scheduled[k].start) + TicksOf(ks \ {k})

\* C13: when the daily cap is supplied as a maximum number of hours per day
\* (settings.maxHoursPerDay = h), the durations of the events scheduled on a
\* day sum to at most h hours.
C13_HourCap ==
  max_per_day # <<>> =>
    \A k \in Placed : TicksOf(EventsOn(EventDay(k))) <= Hr(max_per_day[1])

\* C14: for every input (any task list, any allowed-weekday list including
\* one with no valid code, any daily limit, any deadline), schedule_tasks
\* terminates and returns a result: its day search never runs off the end of
\* the calendar.
C14_Terminates == pc # "overflow"

Durs == [k \in 1..Len(tasks) |-> tasks[k].duration_hours]

\* the event of task k on day d from hour h1 to hour h2
Ev(k, d, h1, h2) ==
  [summary |-> k, start |-> Combine(d, h1), end |-> Combine(d, h2)]

\* Scenario A: carve mode over an empty calendar, count cap 2, Monday to
\* Friday allowed, three 2-hour tasks, horizon from Monday 09:00 to Friday
ScenarioA ==
  /\ mode = "freebusy"
  /\ calendar = <<>>
  /\ GivenLimit = 2
  /\ GivenWeekdays = {0, 1, 2, 3, 4}
  /\ Durs = <<4, 4, 4>>
  /\ next_day_dt = Combine(0, WORK_START)
  /\ deadline_iso = 4

\* C15: in Scenario A the result is task1 Monday 09:00-11:00, task2 Monday
\* 12:00-14:00, task3 Tuesday 09:00-11:00, and nothing is unscheduled.
C15_ScenarioA ==
  (ScenarioA /\ pc = "done") =>
    /\ scheduled = <<Ev(1, 0, 9, 11), Ev(2, 0, 12, 14), Ev(3, 1, 9, 11)>>
    /\ unscheduled = <<>>

\* a finished run of Scenario A
C15_Witness == ScenarioA /\ pc = "done"

\* the first candidate day of the run and the eligible days after it
FirstDay == FirstAllowedDay(DateOf(next_day_dt), GivenWeekdays)
SecondDay == FirstAllowedDay(FirstDay + 1, GivenWeekdays)
ThirdDay == FirstAllowedDay(SecondDay + 1, GivenWeekdays)

\* one fetched busy interval covers the whole 09:00-22:00 window of day d
WindowCovered(d) ==
  /\ Len(fetched) = 1
  /\ fetched[1][1] <= Combine(d, WORK_START)
  /\ fetched[1][2] >= Combine(d, WORK_END)

\* C16: when one busy interval covers the whole working window of the first
\* candidate day, no task is placed on that day, and three 2-hour tasks under
\* count cap 2 go to the next eligible day at 09:00-11:00 and 12:00-14:00 and
\* to the eligible day after it at 09:00-11:00.
C16_ScenarioB ==
  (mode = "freebusy" /\ GivenWeekdays # {} /\ WindowCovered(FirstDay)) =>
    /\ \A k \in Placed : EventDay(k) # FirstDay
    /\ (pc = "done" /\ Durs = <<4, 4, 4>> /\ GivenLimit = 2
        /\ deadline_iso >= ThirdDay) =>
         /\ scheduled = <<Ev(1, SecondDay, 9, 11), Ev(2, SecondDay, 12, 14),
                          Ev(3, ThirdDay, 9, 11)>>
         /\ unscheduled = <<>>

\* a finished run of the three 2-hour tasks whose first day was fully busy
C16_Witness ==
  /\ pc = "done"
  /\ mode = "freebusy"
  /\ GivenWeekdays # {}
  /\ WindowCovered(FirstDay)
  /\ Durs = <<4, 4, 4>>
  /\ Len(scheduled) = 3

\* the tasks longer than the 09:00-22:00 window
Oversized == {k \in 1..Len(tasks) : Durs[k] > Hr(WORK_END - WORK_START)}

\* C17: a task whose duration exceeds the length of the daily working window
\* is never scheduled, whatever the deadline and the calendar, and is
\* reported in the unscheduled list.
C17_ScenarioC ==
  \A i \in Oversized :
    /\ \A k \in Placed : scheduled[k].summary # i
    /\ pc = "done" => \E k \in 1..Len(unscheduled) : unscheduled[k].id = i

\* a finished carve run over a week with a 14-hour task after a placed task
C17_Witness ==
  /\ pc = "done"
  /\ mode = "freebusy"
  /\ Oversized # {}
  /\ Len(scheduled) = 1
  /\ deadline_iso >= DateOf(next_day_dt) + 6

\* Scenario E: preferred-window mode with the morning window, count cap 1,
\* Monday to Friday allowed, two 3-hour tasks
ScenarioE ==
  /\ mode = "preferred"
  /\ preferred_time = "morning"
  /\ GivenLimit = 1
  /\ GivenWeekdays = {0, 1, 2, 3, 4}
  /\ Durs = <<6, 6>>

\* C18: in Scenario E, for every start timestamp, task1 is placed 08:00-11:00
\* on the first eligible day and task2 08:00-11:00 on the next eligible day.
C18_ScenarioE ==
  ScenarioE =>
    /\ \A k \in Placed :
         /\ scheduled[k].start = Combine(EventDay(k), 8)
         /\ scheduled[k].end = Combine(EventDay(k), 11)
    /\ Len(scheduled) >= 1 => EventDay(1) = FirstDay
    /\ Len(scheduled) >= 2 => EventDay(2) = SecondDay

\* C19: every scheduled event is a single interval whose length equals the
\* duration_hours of its source task; no task is split or shortened.
C19_DurationFidelity ==
  /\ \A k \in Placed :
       scheduled[k].end - scheduled[k].start = Durs[scheduled[k].summary]
  /\ \A j, k \in Placed :
       j # k => scheduled[j].summary # scheduled[k].summary

\* a finished carve run with a fetched busy interval and two events of
\* different lengths
C19_Witness ==
  /\ pc = "done"
  /\ mode = "freebusy"
  /\ fetched # <<>>
  /\ \E j, k \in Placed :
       scheduled[j].end - scheduled[j].start
         < scheduled[k].end - scheduled[k].start

\* the orders in which n fetched intervals can be listed
Orders(n) ==
  {f \in [1..n -> 1..n] : \A i, j \in 1..n : i # j => f[i] # f[j]}

\* C20: the allocator gives the same scheduled and unscheduled lists for the
\* same tasks and policy and the same set of busy intervals, however the
\* fetched list orders them.
C20_Determinism ==
  (pc = "done" /\ mode = "freebusy") =>
    \A f \in Orders(Len(fetched)) :
      ScheduleByFreebusy(tasks, next_day_dt, deadline_date, daily_limit,
                         allowed_indices,
                         [k \in 1..Len(fetched) |-> fetched[f[k]]])
        = [scheduled |-> scheduled, unscheduled |-> unscheduled,
           overflow |-> FALSE]

\* a finished carve run that fetched two busy intervals starting at the same
\* time and placed a task
C20_Witness ==
  /\ pc = "done"
  /\ mode = "freebusy"
  /\ Len(fetched) = 2
  /\ fetched[1][1] = fetched[2][1]
  /\ scheduled # <<>>

\* the day being scanned: the probe's date in carve mode, current_date in
\* preferred-window mode
ScanDay == IF mode = "freebusy" THEN DateOf(probe) ELSE current_date

\* one step of either task loop keeps the scanned day and the placed days
\* from going back
ScanForward ==
  pc \in {"carve", "pref"} =>
    /\ ScanDay' >= ScanDay
    /\ Len(scheduled') > Len(scheduled) =>
         DateOf(scheduled'[Len(scheduled')].start) >= ScanDay
    /\ \A j, k \in 1..Len(scheduled') :
         j < k => DateOf(scheduled'[j].start) <= DateOf(scheduled'[k].start)

\* C21: in both modes the day being scanned never moves backward; the days
\* of successively placed tasks are non-decreasing in input order, and no
\* task is placed on a day earlier than the day where the search for the
\* task before it stopped, even if an earlier day has a gap and capacity.
C21_ForwardOnly == [][ScanForward]_vars

\* a finished carve run whose second task went to a later day with the first
\* task although the first eligible day had a gap and capacity for it
C21_Witness ==
  /\ pc = "done"
  /\ mode = "freebusy"
  /\ GivenWeekdays # {}
  /\ daily_limit > 0
  /\ Len(scheduled) = 2
  /\ EventDay(1) > FirstDay
  /\ FirstFit(FreeWindows(fetched, FirstDay), Durs[2]) # <<>>

\* the ids recorded as unscheduled
UnscheduledIds == {unscheduled[u].id : u \in 1..Len(unscheduled)}

\* C22: in carve mode, once one task is recorded as unscheduled the probe is
\* past the deadline and every later task in input order is recorded as
\* unscheduled too, whatever its duration and the free time left.
C22_UnscheduledAbsorbing ==
  (mode = "freebusy" /\ unscheduled # <<>>) =>
    /\ DateOf(probe) > deadline_date
    /\ \A k \in Placed : \A i \in UnscheduledIds : scheduled[k].summary < i
    /\ UnscheduledIds = (idx - Len(unscheduled))..(idx - 1)

\* a finished carve run where both tasks are unscheduled although the second
\* fits a gap of the first eligible day, which is within the deadline and
\* has capacity
C22_Witness ==
  /\ pc = "done"
  /\ mode = "freebusy"
  /\ GivenWeekdays # {}
  /\ daily_limit > 0
  /\ Len(unscheduled) = 2
  /\ FirstDay <= deadline_date
  /\ FirstFit(FreeWindows(fetched, FirstDay), Durs[2]) # <<>>

\* the ticks of day d's 09:00-22:00 window
WindowTicks(d) == Combine(d, WORK_START)..(Combine(d, WORK_END) - 1)

\* tick t is inside no interval of bz
FreeTick(t, bz) == \A b \in 1..Len(bz) : ~(bz[b][1] <= t /\ t < bz[b][2])

\* gaps are the maximal free sub-intervals of day d's window under bz:
\* none is empty, they are in chronological order and not adjacent, and
\* together they hold exactly the free ticks
MaximalGaps(gaps, d, bz) ==
  /\ \A g \in 1..Len(gaps) : gaps[g][1] < gaps[g][2]
  /\ \A g \in 1..(Len(gaps) - 1) : gaps[g][2] < gaps[g + 1][1]
  /\ \A t \in WindowTicks(d) :
       FreeTick(t, bz) <=>
         \E g \in 1..Len(gaps) : gaps[g][1] <= t /\ t < gaps[g][2]
  /\ \A g \in 1..Len(gaps) :
       gaps[g][1] >= Combine(d, WORK_START) /\ gaps[g][2] <= Combine(d, WORK_END)

\* day d is an allowed weekday with fewer events than the daily limit
EligibleDay(d) ==
  /\ WeekdayOf(d) \in allowed_indices
  /\ Cardinality(EventsOn(d)) < daily_limit

\* the starts t, from the probe's day to the deadline, at which a task of
\* length n lies inside an eligible day's window and meets no busy interval
Fits(n) ==
  UNION {{t \in WindowTicks(d) :
            /\ t + n <= Combine(d, WORK_END)
            /\ \A b \in 1..Len(busy) :
                 busy[b][1] < busy[b][2] =>
                   Disjoint(t, t + n, busy[b][1], busy[b][2])} :
         d \in {e \in DateOf(probe)..deadline_date : EligibleDay(e)}}

\* one carve step places its task at the earliest fitting start, or records
\* it unscheduled when there is none
FirstFitStep ==
  (pc = "carve" /\ idx <= Len(tasks) /\ idx' = idx + 1) =>
    LET fits == Fits(Durs[idx])
    IN IF fits = {}
       THEN scheduled' = scheduled /\ Len(unscheduled') = Len(unscheduled) + 1
       ELSE /\ Len(scheduled') = Len(scheduled) + 1
            /\ scheduled'[Len(scheduled')].start \in fits
            /\ \A t \in fits : scheduled'[Len(scheduled')].start <= t

\* the carved gaps of every day of the horizon are the maximal free
\* sub-intervals of its window
GapsExact ==
  pc \in {"carve", "done"} /\ mode = "freebusy" =>
    \A d \in DateOf(next_day_dt)..deadline_date :
      MaximalGaps(FreeWindows(busy, d), d, busy)

\* C23: in carve mode each placed task starts at the earliest time, on the
\* earliest allowed day under its cap from the probe's day on, at which it
\* lies inside 09:00-22:00 and meets no fetched or synthetic busy interval;
\* the carved gaps are exactly the maximal free sub-intervals of the window,
\* in chronological order with none of zero length.
C23_FirstFitReference == [](GapsExact) /\ [][FirstFitStep]_vars

\* a finished carve run that skipped a gap too short for the first task and
\* put the second task into that gap, which it fits exactly
C23_Witness ==
  /\ pc = "done"
  /\ mode = "freebusy"
  /\ Len(scheduled) = 2
  /\ Len(fetched) = 1
  /\ scheduled[2].start = Combine(EventDay(2), WORK_START)
  /\ scheduled[2].end = fetched[1][1]
  /\ scheduled[1].start = fetched[1][2]
  /\ EventDay(1) = EventDay(2)
  /\ Durs[1] > Durs[2]

\* the synthetic busy intervals of the events placed so far
OwnBusy ==
  [k \in 1..Len(scheduled) |-> <<scheduled[k].start, scheduled[k].end + BUFFER>>]

\* an event this request inserted meets one the other request inserted
Overlap ==
  \E j \in 1..Len(inserted) : \E k \in 1..Len(peer_inserted) :
    ~Disjoint(inserted[j].start, inserted[j].end,
              peer_inserted[k].start, peer_inserted[k].end)

\* C24 (what holds in every state of two concurrent requests): a request
\* allocates from the busy list it fetched once and its own placements
\* only, and nothing stops its inserts: a request that answered 200 has
\* inserted every event it scheduled, whatever the other one inserted.
C24_SnapshotRace ==
  /\ pc \in {"carve", "done"} => busy = fetched \o OwnBusy
  /\ pc = "done" =>
       scheduled = ScheduleByFreebusy(tasks, next_day_dt, deadline_date,
                                      daily_limit, allowed_indices,
                                      fetched).scheduled
  /\ response.status = 200 => inserted = scheduled
  /\ peer_pc = "done" => peer_inserted = peer_scheduled

\* C24 (the race): both requests answered 200 and two of their inserted
\* events overlap
C24_Witness ==
  /\ response.status = 200
  /\ peer_pc = "done"
  /\ Overlap

\* a request to route was answered in this step
Answered(route) == last' # last /\ last'.route = route

\* one step of the session
SessionStep ==
  /\ (session_credentials = "none" /\ session_credentials' # "none") =>
       /\ Answered("oauth2callback")
       /\ last'.status = 302
       /\ session_state = "pending"
  /\ (session_state = "none" /\ session_state' = "pending") =>
       Answered("login") /\ last'.status = 302
  /\ (Answered("oauth2callback") /\ session_state = "none") =>
       /\ last'.status = 400
       /\ last'.error = "invalid_state"
       /\ UNCHANGED <<session_state, session_credentials>>
  /\ Answered("oauth2callback") => session_state' = "none"
  /\ (Answered("api_schedule") /\ last'.status = 401) =>
       /\ session_credentials' = "none"
       /\ session_credentials # "none" => session_state' = "none"
       /\ UNCHANGED <<pc, inserted>>
  /\ (pc = "idle" /\ pc' = "start") => session_credentials' = "valid"
  /\ Len(inserted') > Len(inserted) => session_credentials # "none"

\* C25: credentials are stored only by an /oauth2callback that found a
\* pending state set by /login; a callback with no pending state answers
\* invalid_state and stores nothing; a callback always consumes the state;
\* /api/schedule inserts events only while the session holds credentials,
\* and a refresh failure clears the session and answers not_authenticated.
C25_OAuthSequencing ==
  /\ [][SessionStep]_vars
  /\ [](InFlight => session_credentials # "none")
  /\ [](~(session_state = "pending" /\ session_credentials # "none"))

\* after a schedule request that inserted an event, a callback with no
\* pending state was rejected and the credentials are still held
C25_Witness ==
  /\ response.status = 200
  /\ inserted # <<>>
  /\ last.route = "oauth2callback"
  /\ last.error = "invalid_state"
  /\ session_credentials # "none"

====
